---- MODULE Spec2Model ----
(***************************************************************************)
(* State-machine model of the RobotFace React component (src/src/Face.jsx). *)
(* The file holds two variants of the component: the plain one (lines       *)
(* 1-293) and the morphing one (lines 295-658).  One face instance is       *)
(* modelled through its life: construction, mount, re-renders, DOM events,  *)
(* calls on the imperative handle, timers, and teardown.                    *)
(*                                                                          *)
(* React's execution model is kept: a state setter only queues the new      *)
(* value; the values a handler or the handle reads are those captured by    *)
(* the last committed render; effects run after the commit.  A render and   *)
(* the effects of its commit are one step, and a pending re-render is taken *)
(* before any DOM event, owner call or timer callback.                      *)
(*                                                                          *)
(* The demo owner App (src/unnamed/part_000) is modelled on its own, with   *)
(* its interval and its chain of animation frames.  The gaze controller,    *)
(* which Face.jsx does not contain, is modelled from its contract.          *)
(***************************************************************************)
EXTENDS Integers, Sequences, FiniteSets

VARIABLES
    variant,              \* 1: lines 1-293, 2: lines 295-658
    initialExpression,    \* prop
    controlledExpression, \* prop `expression` (Undefined when absent)
    autoBlink,            \* prop
    hasOnChange,          \* whether prop onExpressionChange is supplied
    mediaMatches,         \* environment: mediaQuery.matches
    internalExpression,   \* useState(initialExpression)
    isBlinking,           \* useState(false)
    prefersReducedMotion, \* useState(false)
    prevRef,              \* usePrevious: ref.current
    blinkTimeoutRef,      \* blinkTimeoutRef.current (NoTimer when null)
    rendered,             \* the values captured by the last committed render
    phase,                \* "init", "mounted", "unmounted"
    crashed,              \* a render threw
    dirty,                \* a re-render is pending
    timers,               \* pending setTimeout timers, in creation order
    op,                   \* the last operation and its argument
    calls,                \* onExpressionChange invocations made by the last operation
    run,                  \* consecutive cycleExpression(1) calls: <<start, length>>
    mouthValue,           \* prop
    transition,           \* the spring of the morphing variant: running or at rest
    \* The demo owner, App (src/unnamed/part_000)
    appPhase,             \* "init", "mounted", "unmounted"
    appState,             \* useState: expression, mouthValue, pupilX, pupilY
    expressionIndex,      \* `let expressionIndex` of App's effect
    intervalOn,           \* expressionInterval is running
    animationFrame,       \* `const animationFrame` of App's effect
    frameRequests,        \* ids of the pending requestAnimationFrame requests
    frames,               \* invocations of animate so far
    \* The gaze controller (spec.md 4.3)
    pupilX,               \* prop: <<v>>, or <<>> when absent
    pupilY,               \* prop: <<v>>, or <<>> when absent
    pupilOffset           \* <<x, y>>

\* The variables of App and of the gaze controller.
appVars == <<appPhase, appState, expressionIndex, intervalOn, animationFrame,
             frameRequests, frames, pupilX, pupilY, pupilOffset>>

\* The variables of the face, but for the environment's mediaMatches.
faceOwn == <<variant, initialExpression, controlledExpression, autoBlink,
             hasOnChange, internalExpression, isBlinking, prefersReducedMotion,
             prevRef, blinkTimeoutRef, rendered, phase, crashed, dirty, timers,
             op, calls, run, mouthValue, transition>>

faceVars == <<faceOwn, mediaMatches>>

vars == <<faceVars, appVars>>

(***************************************************************************)
(* Constants of the program and bounds of the model                        *)
(***************************************************************************)
EXPRESSIONS == <<"neutral", "happy", "surprised", "angry", "sad">>

StyleKeys == {"neutral", "happy", "sad", "angry", "surprised"}

Undefined == "undefined"

\* Names a caller may pass: the five expressions and two that are not.
Names == StyleKeys \cup {"bogus", "Happy"}

\* `run` when consecutive cycles are not followed, and when none is under way.
RunOff == <<"off", 0>>

RunIdle == <<"idle", 0>>

\* The owner passes mouthValue from -MouthMargin to 100 + MouthMargin.
MouthMargin == 3

MouthValues == (-MouthMargin) .. (100 + MouthMargin)

\* `transition` when the spring is not followed.
TransOff == "off"

\* The values the owner passes as initialExpression and as expression.
InitialChoices == {"neutral", "bogus"}

OwnerChoices == {Undefined, "neutral", "happy", "bogus"}

Keys == {"ArrowRight", "ArrowLeft", "Enter"}

NoTimer == 0

\* Expression changes are not accepted while this many blink-end timers pend.
MaxEnd == 2

(***************************************************************************)
(* Pure helpers                                                            *)
(***************************************************************************)
\* Array.prototype.includes on EXPRESSIONS
Includes(name) == \E i \in DOMAIN EXPRESSIONS : EXPRESSIONS[i] = name

\* Array.prototype.indexOf on EXPRESSIONS (0-based, -1 when absent)
IndexOf(name) ==
    IF Includes(name)
    THEN (CHOOSE i \in DOMAIN EXPRESSIONS : EXPRESSIONS[i] = name) - 1
    ELSE -1

\* JavaScript's %: the result takes the sign of the dividend.
JsRem(a, n) == IF a >= 0 THEN a % n ELSE -((-a) % n)

\* Mutant: the index is computed without "+ EXPRESSIONS.length".
NextIndexNoLength(currentIndex, direction) ==
    JsRem(currentIndex + direction, Len(EXPRESSIONS))

\* Mutant: the index is clamped to the list instead of wrapping around.
NextIndexClamp(currentIndex, direction) ==
    IF currentIndex + direction < 0 THEN 0
    ELSE IF currentIndex + direction >= Len(EXPRESSIONS) THEN Len(EXPRESSIONS) - 1
    ELSE currentIndex + direction

\* (currentIndex + direction + EXPRESSIONS.length) % EXPRESSIONS.length
NextIndex(currentIndex, direction) ==
    JsRem(currentIndex + direction + Len(EXPRESSIONS), Len(EXPRESSIONS))

\* isControlled = controlledExpression !== undefined
IsControlled == controlledExpression # Undefined

\* expression = isControlled ? controlledExpression : internalExpression
Expression == IF IsControlled THEN controlledExpression ELSE internalExpression

\* expressionStyles[e] is defined
HasStyle(e) == e \in StyleKeys

\* fromExpression = prevExpression || initialExpression
FromExpression(prev) == IF prev = Undefined THEN initialExpression ELSE prev

\* The morphing variant reads expressionStyles[fromExpression].eyes and
\* expressionStyles[toExpression].eyes without a guard; the plain variant
\* uses expressionStyles[expr]?.eyes.
RenderThrows(from, to) == variant = 2 /\ (~HasStyle(from) \/ ~HasStyle(to))

JsMin(a, b) == IF a <= b THEN a ELSE b

JsMax(a, b) == IF a >= b THEN a ELSE b

\* Mutant: the ratio mouthValue / 100 is not capped at 1.
MouthScaleNoCap(v) == 1000 + JsMax(0, v) * 5

\* mouthScale = 1 + Math.max(0, Math.min(1, mouthValue / 100)) * 0.5, for an
\* integer mouthValue.  The ratio mouthValue / 100 is kept in hundredths and
\* the scale in thousandths, so that no rounding takes place.
MouthScale(v) == 1000 + JsMax(0, JsMin(100, v)) * 5

\* The scale of the mouth a render draws, <<scale>>; the plain variant draws
\* no mouth, <<>>, for a name that has no style.
RenderedMouthScale(expr, v) ==
    IF variant = 1 /\ ~HasStyle(expr) THEN <<>> ELSE <<MouthScale(v)>>

(***************************************************************************)
(* Timers                                                                  *)
(***************************************************************************)
TimerIds(ts) == {ts[i].id : i \in DOMAIN ts}

\* setTimeout returns an id no pending timer has and that no ref still holds.
FreshId(ts, ref) ==
    CHOOSE i \in 1 .. (Len(ts) + 2) :
        /\ i \notin TimerIds(ts) \cup {ref}
        /\ \A j \in 1 .. (i - 1) : j \in TimerIds(ts) \cup {ref}

ClearTimeout(ts, id) == SelectSeq(ts, LAMBDA t : t.id # id)

\* setTimeout(() => setIsBlinking(false), 150), of the pulse started by the
\* idle timer's callback ("idle") or by the expression-change effect ("expr")
EndTimer(ts, ref, pulse) ==
    [id |-> FreshId(ts, ref), kind |-> "end", pulse |-> pulse,
     ab |-> FALSE, rm |-> FALSE]

\* The pending blink-end timers of the pulses of one origin.
CountPulse(ts, pulse) ==
    Cardinality({i \in DOMAIN ts : ts[i].kind = "end" /\ ts[i].pulse = pulse})

CountKind(ts, k) == Cardinality({i \in DOMAIN ts : ts[i].kind = k})

\* Mutant: scheduleBlink has no early return.
ScheduleBlinkNoGuard(ts, ref, ab, rm) ==
    LET cleared == ClearTimeout(ts, ref)
        id == FreshId(cleared, NoTimer)
    IN  [timers |-> Append(cleared, [id |-> id, kind |-> "idle", pulse |-> "none",
                                     ab |-> ab, rm |-> rm]),
         ref |-> id]

\* Mutant: the new timer's id is not stored in blinkTimeoutRef.current.
ScheduleBlinkNoRef(ts, ref, ab, rm) ==
    IF ~ab \/ rm
    THEN [timers |-> ts, ref |-> ref]
    ELSE LET cleared == ClearTimeout(ts, ref)
             id == FreshId(cleared, ref)
         IN  [timers |-> Append(cleared, [id |-> id, kind |-> "idle", pulse |-> "none",
                                          ab |-> ab, rm |-> rm]),
              ref |-> ref]

\* Mutant: scheduleBlink tests autoBlink only.
ScheduleBlinkIgnoreMotion(ts, ref, ab, rm) ==
    IF ~ab
    THEN [timers |-> ts, ref |-> ref]
    ELSE LET cleared == ClearTimeout(ts, ref)
             id == FreshId(cleared, NoTimer)
         IN  [timers |-> Append(cleared, [id |-> id, kind |-> "idle", pulse |-> "none",
                                          ab |-> ab, rm |-> rm]),
              ref |-> id]

\* scheduleBlink() of an effect run whose closure holds autoBlink = ab and
\* prefersReducedMotion = rm.
ScheduleBlink(ts, ref, ab, rm) ==
    IF ~ab \/ rm
    THEN [timers |-> ts, ref |-> ref]
    ELSE LET cleared == ClearTimeout(ts, ref)
             id == FreshId(cleared, NoTimer)
         IN  [timers |-> Append(cleared, [id |-> id, kind |-> "idle", pulse |-> "none",
                                          ab |-> ab, rm |-> rm]),
              ref |-> id]

\* Mutant: the auto-blink effect returns no cleanup.
BlinkCleanupNone(ts, ref) == ts

\* return () => clearTimeout(blinkTimeoutRef.current)
BlinkCleanup(ts, ref) == ClearTimeout(ts, ref)

(***************************************************************************)
(* The demo owner App before it is mounted (src/unnamed/part_000)          *)
(***************************************************************************)
\* const expressions = ["neutral", "happy", "sad", "surprised"]
AppExpressions == <<"neutral", "happy", "sad", "surprised">>

\* No requestAnimationFrame id.
NoFrame == 0

\* animate is followed for this many invocations.
MaxFrames == 3

\* Pupil signals an owner supplies range over -MaxPupil .. MaxPupil.
MaxPupil == 10

\* A pupil signal v stands for the number v / PupilUnit.
PupilUnit == 2

AppInit ==
    /\ appPhase = "init"
    /\ appState = [expression |-> "neutral", mouthValue |-> 0,
                   pupilX |-> 0, pupilY |-> 0]
    /\ expressionIndex = 0
    /\ intervalOn = FALSE
    /\ animationFrame = NoFrame
    /\ frameRequests = {}
    /\ frames = 0
    /\ pupilX = <<>>
    /\ pupilY = <<>>
    /\ pupilOffset = <<0, 0>>

(***************************************************************************)
(* Initial state: the props the owner constructs the face with             *)
(***************************************************************************)
Init ==
    /\ variant \in {1, 2}
    /\ initialExpression \in InitialChoices
    /\ controlledExpression \in OwnerChoices
    /\ autoBlink \in BOOLEAN
    /\ hasOnChange \in BOOLEAN
    /\ mediaMatches \in BOOLEAN
    /\ internalExpression = initialExpression
    /\ isBlinking = FALSE
    /\ prefersReducedMotion = FALSE
    /\ prevRef = Undefined
    /\ blinkTimeoutRef = NoTimer
    /\ rendered = [expression |-> Undefined, isControlled |-> FALSE,
                   hasOnChange |-> FALSE, prev |-> Undefined,
                   from |-> Undefined, to |-> Undefined,
                   autoBlink |-> FALSE, prm |-> FALSE,
                   mouthValue |-> <<>>, mouthScale |-> <<>>]
    /\ phase = "init"
    /\ crashed = FALSE
    /\ dirty = FALSE
    /\ timers = <<>>
    /\ op = <<"init", Undefined>>
    /\ calls = <<>>
    /\ run = RunOff
    /\ mouthValue = 0
    /\ transition = TransOff
    /\ AppInit

(***************************************************************************)
(* Render and commit                                                       *)
(***************************************************************************)
\* Mutant: the effect does not compare the expression with the previous one.
ExprBlinkAnyRender(prev, expr, rm, ab) ==
    /\ variant = 2
    /\ prev # Undefined
    /\ ~rm
    /\ ab

\* The expression-change blink effect of the morphing variant.
ExprBlinkCondition(prev, expr, rm, ab) ==
    /\ variant = 2
    /\ prev # Undefined
    /\ prev # expr
    /\ ~rm
    /\ ab

\* Mutant: the auto-blink effect also depends on the expression.
BlinkDepsWithExpression(isMount, ab, rm) ==
    \/ isMount
    \/ rendered.autoBlink # ab
    \/ rendered.prm # rm
    \/ rendered.expression # Expression

\* Whether the auto-blink effect runs at this commit: its dependencies are
\* [autoBlink, prefersReducedMotion].
BlinkDeps(isMount, ab, rm) ==
    \/ isMount
    \/ rendered.autoBlink # ab
    \/ rendered.prm # rm

\* The spring of the morphing variant after a render: useSpring restarts it
\* when its key, toExpression, changes; `immediate` takes it to its end.
SpringAfterRender(isMount, expr, rm) ==
    IF transition = TransOff THEN TransOff
    ELSE IF variant # 2 \/ rm THEN "rest"
    ELSE IF isMount \/ rendered.to # expr THEN "running"
    ELSE transition

\* One render of the component followed by its commit and its effects.
Commit(isMount) ==
    LET expr == Expression
        prev == prevRef
        from == FromExpression(prev)
        ab   == autoBlink
        rm   == prefersReducedMotion
    IN
    IF RenderThrows(from, expr)
    THEN \* the error unmounts the tree; effects of earlier commits are cleaned up
         /\ crashed' = TRUE
         /\ phase' = "unmounted"
         /\ dirty' = FALSE
         /\ timers' = IF isMount THEN timers ELSE BlinkCleanup(timers, blinkTimeoutRef)
         /\ transition' = IF transition = TransOff THEN TransOff ELSE "rest"
         /\ UNCHANGED <<isBlinking, prefersReducedMotion, prevRef, blinkTimeoutRef,
                        rendered>>
    ELSE
    LET \* the matchMedia effect runs on mount only: handler()
        prm1 == IF isMount THEN mediaMatches ELSE prefersReducedMotion
        \* the expression-change blink effect
        exprDeps == isMount \/ rendered.expression # expr \/ rendered.prev # prev
                            \/ rendered.prm # rm \/ rendered.autoBlink # ab
        pulse == exprDeps /\ ExprBlinkCondition(prev, expr, rm, ab)
        \* the auto-blink effect: cleanup of the previous run, then the new run
        blinkDeps == BlinkDeps(isMount, ab, rm)
        ts0 == IF blinkDeps /\ ~isMount
               THEN BlinkCleanup(timers, blinkTimeoutRef) ELSE timers
        ts1 == IF pulse THEN Append(ts0, EndTimer(ts0, blinkTimeoutRef, "expr")) ELSE ts0
        blink1 == IF pulse THEN TRUE ELSE isBlinking
    IN
    /\ crashed' = crashed
    /\ phase' = "mounted"
    /\ rendered' = [expression |-> expr, isControlled |-> IsControlled,
                    hasOnChange |-> hasOnChange, prev |-> prev,
                    from |-> from, to |-> expr, autoBlink |-> ab, prm |-> rm,
                    mouthValue |-> <<mouthValue>>,
                    mouthScale |-> RenderedMouthScale(expr, mouthValue)]
    /\ transition' = SpringAfterRender(isMount, expr, rm)
    /\ prevRef' = expr
    /\ prefersReducedMotion' = prm1
    /\ isBlinking' = blink1
    /\ LET s == IF blinkDeps
                 THEN ScheduleBlink(ts1, blinkTimeoutRef, ab, rm)
                 ELSE [timers |-> ts1, ref |-> blinkTimeoutRef]
       IN  /\ timers' = s.timers
           /\ blinkTimeoutRef' = s.ref
    /\ dirty' = (prm1 # prefersReducedMotion \/ blink1 # isBlinking)

Mount ==
    /\ phase = "init"
    /\ Commit(TRUE)
    /\ op' = <<"mount", Undefined>>
    /\ calls' = <<>>
    /\ UNCHANGED <<appVars, mouthValue,
                   variant, initialExpression, controlledExpression, autoBlink,
                   hasOnChange, mediaMatches, internalExpression, run>>

Render ==
    /\ phase = "mounted"
    /\ dirty
    /\ Commit(FALSE)
    /\ UNCHANGED <<appVars, mouthValue,
                   variant, initialExpression, controlledExpression, autoBlink,
                   hasOnChange, mediaMatches, internalExpression, op, calls, run>>

(***************************************************************************)
(* setExpression, the imperative handle, cycleExpression                   *)
(***************************************************************************)
\* What setExpression(newExpression) assigns to internalExpression.
SetExpressionState(newExpression) ==
    IF Includes(newExpression) /\ ~rendered.isControlled
    THEN newExpression
    ELSE internalExpression

\* Mutant: the callback is invoked without the membership test.
SetExpressionCallsUnchecked(newExpression) ==
    IF rendered.hasOnChange THEN <<newExpression>> ELSE <<>>

\* Mutant: the callback is invoked only when the name differs from the current one.
SetExpressionCallsOnChange(newExpression) ==
    IF Includes(newExpression) /\ rendered.hasOnChange
       /\ newExpression # rendered.expression
    THEN <<newExpression>>
    ELSE <<>>

\* The onExpressionChange invocations setExpression(newExpression) makes.
SetExpressionCalls(newExpression) ==
    IF Includes(newExpression) /\ rendered.hasOnChange
    THEN <<newExpression>>
    ELSE <<>>

setExpression(newExpression) ==
    /\ internalExpression' = SetExpressionState(newExpression)
    /\ calls' = SetExpressionCalls(newExpression)
    /\ dirty' = (dirty \/ internalExpression' # internalExpression)
    /\ UNCHANGED <<appVars, mouthValue, transition,
                   variant, initialExpression, controlledExpression, autoBlink,
                   hasOnChange, mediaMatches, isBlinking, prefersReducedMotion,
                   prevRef, blinkTimeoutRef, rendered, phase, crashed, timers>>

\* getExpression: () => expression, of the last committed render
getExpression == rendered.expression

\* An accepted request may start a blink pulse: keep the pending ones bounded.
RoomForPulse == CountKind(timers, "end") < MaxEnd

\* A request other than cycleExpression(1) ends a run of consecutive cycles.
RunReset == IF run = RunOff THEN RunOff ELSE RunIdle

\* cycleExpression(1) starts a run at the current expression, or extends it.
RunStep ==
    IF run = RunOff THEN RunOff
    ELSE IF run = RunIdle \/ run[2] >= Len(EXPRESSIONS)
         THEN <<rendered.expression, 1>>
         ELSE <<run[1], run[2] + 1>>

\* ref.current.setExpression(name), called by the owner in a task of its own
HandleSetExpression(name) ==
    /\ phase = "mounted"
    /\ ~dirty
    /\ RoomForPulse
    /\ setExpression(name)
    /\ op' = <<"setExpression", name>>
    /\ run' = RunReset

\* EXPRESSIONS[nextIndex]: undefined when the index is out of range
At(index) ==
    IF index + 1 \in DOMAIN EXPRESSIONS THEN EXPRESSIONS[index + 1] ELSE Undefined

\* The expression cycleExpression(direction) requests.
CycleTarget(direction) == At(NextIndex(IndexOf(rendered.expression), direction))

cycleExpression(direction) == setExpression(CycleTarget(direction))

\* onClick={() => cycleExpression(1)}
Click ==
    /\ phase = "mounted"
    /\ ~dirty
    /\ RoomForPulse
    /\ cycleExpression(1)
    /\ op' = <<"click", "+1">>
    /\ run' = RunStep

\* handleKeyDown
KeyDown(key) ==
    /\ phase = "mounted"
    /\ ~dirty
    /\ RoomForPulse
    /\ IF key = "ArrowRight" THEN cycleExpression(1)
       ELSE IF key = "ArrowLeft" THEN cycleExpression(-1)
       ELSE /\ calls' = <<>>
            /\ UNCHANGED <<appVars, mouthValue, transition,
                           variant, initialExpression, controlledExpression,
                           autoBlink, hasOnChange, mediaMatches, internalExpression,
                           isBlinking, prefersReducedMotion, prevRef,
                           blinkTimeoutRef, rendered, phase, crashed, dirty, timers>>
    /\ op' = <<"key", IF key = "ArrowRight" THEN "+1"
                      ELSE IF key = "ArrowLeft" THEN "-1" ELSE "none">>
    /\ run' = IF key = "ArrowRight" THEN RunStep
              ELSE IF key = "ArrowLeft" THEN RunReset ELSE run

(***************************************************************************)
(* The owner and the environment                                           *)
(***************************************************************************)
\* The owner re-renders the face with another `expression` prop.
OwnerSetExpression(v) ==
    /\ phase = "mounted"
    /\ ~dirty
    /\ RoomForPulse
    /\ v # controlledExpression
    /\ controlledExpression' = v
    /\ dirty' = TRUE
    /\ op' = <<"ownerExpression", v>>
    /\ calls' = <<>>
    /\ run' = RunReset
    /\ UNCHANGED <<appVars, mouthValue, transition,
                   variant, initialExpression, autoBlink, hasOnChange, mediaMatches,
                   internalExpression, isBlinking, prefersReducedMotion, prevRef,
                   blinkTimeoutRef, rendered, phase, crashed, timers>>

\* The owner re-renders the face with another `autoBlink` prop.
OwnerSetAutoBlink ==
    /\ phase = "mounted"
    /\ ~dirty
    /\ autoBlink' = ~autoBlink
    /\ dirty' = TRUE
    /\ op' = <<"ownerAutoBlink", Undefined>>
    /\ calls' = <<>>
    /\ run' = run
    /\ UNCHANGED <<appVars, mouthValue, transition,
                   variant, initialExpression, controlledExpression, hasOnChange,
                   mediaMatches, internalExpression, isBlinking,
                   prefersReducedMotion, prevRef, blinkTimeoutRef, rendered, phase,
                   crashed, timers>>

\* The owner re-renders the face with another `mouthValue` prop.
OwnerSetMouthValue(v) ==
    /\ phase = "mounted"
    /\ ~dirty
    /\ v # mouthValue
    /\ mouthValue' = v
    /\ dirty' = TRUE
    /\ op' = <<"ownerMouthValue", Undefined>>
    /\ calls' = <<>>
    /\ run' = run
    /\ UNCHANGED <<appVars, transition,
                   variant, initialExpression, controlledExpression, autoBlink,
                   hasOnChange, mediaMatches, internalExpression, isBlinking,
                   prefersReducedMotion, prevRef, blinkTimeoutRef, rendered, phase,
                   crashed, timers>>

\* The owner re-renders with the same props (the face is not memoised).
OwnerRerender ==
    /\ phase = "mounted"
    /\ ~dirty
    /\ dirty' = TRUE
    /\ op' = <<"ownerRerender", Undefined>>
    /\ calls' = <<>>
    /\ run' = run
    /\ UNCHANGED <<appVars, mouthValue, transition,
                   variant, initialExpression, controlledExpression, autoBlink,
                   hasOnChange, mediaMatches, internalExpression, isBlinking,
                   prefersReducedMotion, prevRef, blinkTimeoutRef, rendered, phase,
                   crashed, timers>>

\* The reduced-motion preference changes; while the face is mounted its
\* "change" listener runs handler(): setPrefersReducedMotion(mediaQuery.matches).
MediaChange ==
    /\ phase # "init"
    /\ ~dirty
    /\ mediaMatches' = ~mediaMatches
    /\ prefersReducedMotion' =
          IF phase = "mounted" THEN mediaMatches' ELSE prefersReducedMotion
    /\ dirty' = (prefersReducedMotion' # prefersReducedMotion)
    /\ op' = <<"mediaChange", Undefined>>
    /\ calls' = <<>>
    /\ run' = run
    /\ UNCHANGED <<appVars, mouthValue, transition,
                   variant, initialExpression, controlledExpression, autoBlink,
                   hasOnChange, internalExpression, isBlinking, prevRef,
                   blinkTimeoutRef, rendered, phase, crashed, timers>>

\* The spring reaches its end value; react-spring animates outside React's
\* render cycle, so no re-render takes place.
SpringRest ==
    /\ phase = "mounted"
    /\ ~dirty
    /\ transition = "running"
    /\ transition' = "rest"
    /\ op' = <<"springRest", Undefined>>
    /\ calls' = <<>>
    /\ run' = run
    /\ UNCHANGED <<appVars, mouthValue,
                   variant, initialExpression, controlledExpression, autoBlink,
                   hasOnChange, mediaMatches, internalExpression, isBlinking,
                   prefersReducedMotion, prevRef, blinkTimeoutRef, rendered, phase,
                   crashed, dirty, timers>>

\* Teardown: the effect cleanups run; the handle ref is reset to null.
Unmount ==
    /\ phase = "mounted"
    /\ ~dirty
    /\ phase' = "unmounted"
    /\ timers' = BlinkCleanup(timers, blinkTimeoutRef)
    /\ op' = <<"unmount", Undefined>>
    /\ calls' = <<>>
    /\ run' = run
    /\ transition' = IF transition = TransOff THEN TransOff ELSE "rest"
    /\ UNCHANGED <<appVars, mouthValue,
                   variant, initialExpression, controlledExpression, autoBlink,
                   hasOnChange, mediaMatches, internalExpression, isBlinking,
                   prefersReducedMotion, prevRef, blinkTimeoutRef, rendered,
                   crashed, dirty>>

(***************************************************************************)
(* Timer callbacks                                                         *)
(*                                                                         *)
(* Delays are kept as an order: a blink-end timer runs 150 ms (200 ms in   *)
(* the plain variant) after its creation, the idle timer 2000-6000 ms      *)
(* after its creation.  So blink-end timers fire in creation order, and    *)
(* the idle timer fires only after every blink-end timer created before    *)
(* it; against a blink-end timer created after it, either may come first.  *)
(***************************************************************************)
RemoveAt(ts, i) == SubSeq(ts, 1, i - 1) \o SubSeq(ts, i + 1, Len(ts))

\* Mutant: timers fire in any order.
MayFireAny(ts, i) == TRUE

\* Whether the timer at position i may be the next one to fire.
MayFire(ts, i) == \A j \in 1 .. (i - 1) : ts[j].kind # "end"

\* Mutant: the setter sets the flag whatever its argument.
SetIsBlinkingStuck(v) == IF phase = "mounted" THEN TRUE ELSE isBlinking

\* The effect of a state setter called from a timer: none once unmounted.
SetIsBlinking(v) == IF phase = "mounted" THEN v ELSE isBlinking

\* The idle timer's callback:
\*   setIsBlinking(true); setTimeout(() => setIsBlinking(false), 150); scheduleBlink();
FireIdle ==
    /\ ~dirty
    /\ \E i \in DOMAIN timers :
          /\ timers[i].kind = "idle"
          /\ MayFire(timers, i)
          /\ LET t == timers[i]
                 rest == RemoveAt(timers, i)
                 ts1 == Append(rest, EndTimer(rest, blinkTimeoutRef, "idle"))
                 s == ScheduleBlink(ts1, blinkTimeoutRef, t.ab, t.rm)
             IN  /\ timers' = s.timers
                 /\ blinkTimeoutRef' = s.ref
    /\ isBlinking' = SetIsBlinking(TRUE)
    /\ dirty' = (isBlinking' # isBlinking)
    /\ op' = <<"fireIdle", Undefined>>
    /\ calls' = <<>>
    /\ run' = run
    /\ UNCHANGED <<appVars, mouthValue, transition,
                   variant, initialExpression, controlledExpression, autoBlink,
                   hasOnChange, mediaMatches, internalExpression,
                   prefersReducedMotion, prevRef, rendered, phase, crashed>>

\* A blink-end timer's callback: setIsBlinking(false)
FireEnd ==
    /\ ~dirty
    /\ \E i \in DOMAIN timers :
          /\ timers[i].kind = "end"
          /\ MayFire(timers, i)
          /\ timers' = RemoveAt(timers, i)
    /\ isBlinking' = SetIsBlinking(FALSE)
    /\ dirty' = (isBlinking' # isBlinking)
    /\ op' = <<"fireEnd", Undefined>>
    /\ calls' = <<>>
    /\ run' = run
    /\ UNCHANGED <<appVars, mouthValue, transition,
                   variant, initialExpression, controlledExpression, autoBlink,
                   hasOnChange, mediaMatches, internalExpression,
                   prefersReducedMotion, prevRef, blinkTimeoutRef, rendered, phase,
                   crashed>>

(***************************************************************************)
(* Specification                                                           *)
(***************************************************************************)
Next ==
    \/ Mount
    \/ Render
    \/ \E name \in Names : HandleSetExpression(name)
    \/ Click
    \/ \E key \in Keys : KeyDown(key)
    \/ \E v \in OwnerChoices : OwnerSetExpression(v)
    \/ OwnerSetAutoBlink
    \/ OwnerRerender
    \/ MediaChange
    \/ Unmount
    \/ FireIdle
    \/ FireEnd

Spec == Init /\ [][Next]_vars

\* The same program, with runs of consecutive cycleExpression(1) calls followed.
InitCycle ==
    /\ variant \in {1, 2}
    /\ initialExpression \in StyleKeys
    /\ controlledExpression \in OwnerChoices
    /\ autoBlink \in BOOLEAN
    /\ hasOnChange \in BOOLEAN
    /\ mediaMatches \in BOOLEAN
    /\ internalExpression = initialExpression
    /\ isBlinking = FALSE
    /\ prefersReducedMotion = FALSE
    /\ prevRef = Undefined
    /\ blinkTimeoutRef = NoTimer
    /\ rendered = [expression |-> Undefined, isControlled |-> FALSE,
                   hasOnChange |-> FALSE, prev |-> Undefined,
                   from |-> Undefined, to |-> Undefined,
                   autoBlink |-> FALSE, prm |-> FALSE,
                   mouthValue |-> <<>>, mouthScale |-> <<>>]
    /\ phase = "init"
    /\ crashed = FALSE
    /\ dirty = FALSE
    /\ timers = <<>>
    /\ op = <<"init", Undefined>>
    /\ calls = <<>>
    /\ run = RunIdle
    /\ mouthValue = 0
    /\ transition = TransOff
    /\ AppInit

\* The steps that bear on the expression, with the blink timers running.
NextCycle ==
    \/ Mount
    \/ Render
    \/ \E name \in Names : HandleSetExpression(name)
    \/ Click
    \/ \E key \in Keys : KeyDown(key)
    \/ \E v \in OwnerChoices : OwnerSetExpression(v)
    \/ OwnerRerender
    \/ FireIdle
    \/ FireEnd

SpecCycle == InitCycle /\ [][NextCycle]_vars

(***************************************************************************)
(* The gaze controller (spec.md 4.3).  Face.jsx declares no pupilX or      *)
(* pupilY prop and computes no pupil offset: the controller is modelled    *)
(* from its contract.                                                      *)
(***************************************************************************)
\* The maximum displacement D, in units of the view box.
D == 4

Clamp(v, lo, hi) == JsMax(lo, JsMin(hi, v))

\* Mutant: the signal is scaled without being clamped.
GazeAxisUnclamped(v) == v * D

\* Driven mode, one axis: the signal is clamped to [-1, 1], then scaled by D.
\* The result is the offset times PupilUnit.
GazeAxis(v) == Clamp(v, -PupilUnit, PupilUnit) * D

\* Driven mode is active when both signals are supplied.
GazeMode(x, y) == IF x # <<>> /\ y # <<>> THEN "driven" ELSE "pointer"

\* The pupil offset, times PupilUnit.  Pointer-follow mode is modelled with
\* the pointer outside the face.
GazeOffset(x, y, reduced) ==
    IF reduced \/ GazeMode(x, y) = "pointer"
    THEN <<0, 0>>
    ELSE <<GazeAxis(x[1]), GazeAxis(y[1])>>

\* The props an owner may pass: a number, or nothing.
PupilValues == {<<v>> : v \in (-MaxPupil) .. MaxPupil} \cup {<<>>}

\* An owner other than App renders the face with pupil signals of its choice.
OwnerSetPupil(x, y) ==
    /\ appPhase = "init"
    /\ pupilX' = x
    /\ pupilY' = y
    /\ pupilOffset' = GazeOffset(x, y, mediaMatches)
    /\ UNCHANGED <<faceVars, appPhase, appState, expressionIndex, intervalOn,
                   animationFrame, frameRequests, frames>>

\* The reduced-motion preference changes while no face of Face.jsx is shown.
GazeMediaChange ==
    /\ phase = "init"
    /\ mediaMatches' = ~mediaMatches
    /\ pupilOffset' = GazeOffset(pupilX, pupilY, mediaMatches')
    /\ UNCHANGED <<faceOwn, appPhase, appState, expressionIndex, intervalOn,
                   animationFrame, frameRequests, frames, pupilX, pupilY>>

(***************************************************************************)
(* The demo owner App (src/unnamed/part_000)                               *)
(*                                                                         *)
(* A state setter of App and the render that follows it are one step: the  *)
(* props the face receives are App's state.  The face itself is left out.  *)
(***************************************************************************)
\* requestAnimationFrame returns an id no pending request has and that the
\* effect's `animationFrame` does not hold.
FreshFrameId(reqs, held) ==
    CHOOSE i \in 1 .. (Cardinality(reqs) + 2) :
        /\ i \notin reqs \cup {held}
        /\ \A j \in 1 .. (i - 1) : j \in reqs \cup {held}

CancelAnimationFrame(reqs, id) == reqs \ {id}

\* The values Math.sin and Math.cos return: -1 .. 1.
AppPupilValues == (-PupilUnit) .. PupilUnit

\* The values animate passes to setMouthValue under expression e.
AppMouthValues(e) ==
    IF e = "surprised" THEN {0, 50, 100}
    ELSE IF e = "happy" THEN {0, 25, 50}
    ELSE {0}

\* The effect of a state setter of App: none once App is unmounted.
AppSet(field, v) == IF appPhase = "mounted" THEN v ELSE appState[field]

\* App is mounted: first render, then the effect.
AppMount ==
    /\ appPhase = "init"
    /\ appPhase' = "mounted"
    /\ pupilX' = <<appState.pupilX>>
    /\ pupilY' = <<appState.pupilY>>
    /\ pupilOffset' = GazeOffset(pupilX', pupilY', mediaMatches)
    /\ expressionIndex' = 0
    /\ intervalOn' = TRUE
    /\ animationFrame' = FreshFrameId(frameRequests, NoFrame)
    /\ frameRequests' = frameRequests \cup {animationFrame'}
    /\ UNCHANGED <<faceVars, appState, frames>>

\* The callback of expressionInterval.
AppInterval ==
    /\ intervalOn
    /\ expressionIndex' = (expressionIndex + 1) % Len(AppExpressions)
    /\ appState' = [appState EXCEPT
                       !.expression = AppSet("expression",
                                             AppExpressions[expressionIndex' + 1])]
    /\ UNCHANGED <<faceVars, appPhase, intervalOn, animationFrame, frameRequests,
                   frames, pupilX, pupilY, pupilOffset>>

\* The browser runs the callback of a pending frame request: animate.
AppFrame ==
    /\ frames < MaxFrames
    /\ \E id \in frameRequests :
          LET rest == frameRequests \ {id}
          IN  frameRequests' = rest \cup {FreshFrameId(rest, animationFrame)}
    /\ \E x, y \in AppPupilValues :
       \E m \in AppMouthValues(AppExpressions[expressionIndex + 1]) :
          appState' = [appState EXCEPT !.pupilX = AppSet("pupilX", x),
                                       !.pupilY = AppSet("pupilY", y),
                                       !.mouthValue = AppSet("mouthValue", m)]
    /\ pupilX' = IF appPhase = "mounted" THEN <<appState'.pupilX>> ELSE pupilX
    /\ pupilY' = IF appPhase = "mounted" THEN <<appState'.pupilY>> ELSE pupilY
    /\ pupilOffset' = GazeOffset(pupilX', pupilY', mediaMatches)
    /\ frames' = frames + 1
    /\ UNCHANGED <<faceVars, appPhase, expressionIndex, intervalOn, animationFrame>>

\* App is unmounted: the cleanup of the effect.
AppUnmount ==
    /\ appPhase = "mounted"
    /\ appPhase' = "unmounted"
    /\ intervalOn' = FALSE
    /\ frameRequests' = CancelAnimationFrame(frameRequests, animationFrame)
    /\ UNCHANGED <<faceVars, appState, expressionIndex, animationFrame, frames,
                   pupilX, pupilY, pupilOffset>>

\* App as the owner, or another owner that supplies pupil signals.
InitApp ==
    /\ Init
    /\ variant = 2
    /\ initialExpression = "neutral"
    /\ controlledExpression = "neutral"
    /\ autoBlink
    /\ ~hasOnChange

NextApp ==
    \/ AppMount
    \/ AppInterval
    \/ AppFrame
    \/ AppUnmount
    \/ \E x, y \in PupilValues : OwnerSetPupil(x, y)
    \/ GazeMediaChange

SpecApp == InitApp /\ [][NextApp]_vars


(***************************************************************************)
(* The face under fair scheduling: a pending re-render is carried out, and *)
(* a timer that is due is run by the browser's event loop, however many    *)
(* events are handled in between.                                          *)
(***************************************************************************)
InitLive ==
    /\ Init
    /\ initialExpression = "neutral"
    /\ controlledExpression = Undefined
    /\ ~hasOnChange

NextLive ==
    \/ Mount
    \/ Render
    \/ Click
    \/ OwnerSetAutoBlink
    \/ OwnerRerender
    \/ MediaChange
    \/ Unmount
    \/ FireIdle
    \/ FireEnd

Fairness ==
    /\ WF_vars(Render)
    /\ SF_vars(FireIdle)
    /\ SF_vars(FireEnd)

SpecLive == InitLive /\ [][NextLive]_vars /\ Fairness


(***************************************************************************)
(* The mouth: a face without blinking whose owner varies mouthValue, and   *)
(* whose expression is cycled by clicks.                                   *)
(***************************************************************************)
InitMouth ==
    /\ Init
    /\ initialExpression = "neutral"
    /\ controlledExpression = Undefined
    /\ ~autoBlink
    /\ ~hasOnChange
    /\ ~mediaMatches

NextMouth ==
    \/ Mount
    \/ Render
    \/ Click
    \/ \E v \in MouthValues : OwnerSetMouthValue(v)

SpecMouth == InitMouth /\ [][NextMouth]_vars


(***************************************************************************)
(* The morphing variant with its spring followed: an uncontrolled face     *)
(* that is clicked, re-rendered by its owner, blinks, and sees the         *)
(* reduced-motion preference change.                                       *)
(***************************************************************************)
InitMorph ==
    /\ variant = 2
    /\ initialExpression = "neutral"
    /\ controlledExpression = Undefined
    /\ autoBlink \in BOOLEAN
    /\ hasOnChange = FALSE
    /\ mediaMatches \in BOOLEAN
    /\ internalExpression = initialExpression
    /\ isBlinking = FALSE
    /\ prefersReducedMotion = FALSE
    /\ prevRef = Undefined
    /\ blinkTimeoutRef = NoTimer
    /\ rendered = [expression |-> Undefined, isControlled |-> FALSE,
                   hasOnChange |-> FALSE, prev |-> Undefined,
                   from |-> Undefined, to |-> Undefined,
                   autoBlink |-> FALSE, prm |-> FALSE,
                   mouthValue |-> <<>>, mouthScale |-> <<>>]
    /\ phase = "init"
    /\ crashed = FALSE
    /\ dirty = FALSE
    /\ timers = <<>>
    /\ op = <<"init", Undefined>>
    /\ calls = <<>>
    /\ run = RunOff
    /\ mouthValue = 0
    /\ transition = "rest"
    /\ AppInit

NextMorph ==
    \/ Mount
    \/ Render
    \/ Click
    \/ \E v \in {0, 100} : OwnerSetMouthValue(v)
    \/ OwnerRerender
    \/ MediaChange
    \/ SpringRest
    \/ FireIdle
    \/ FireEnd

SpecMorph == InitMorph /\ [][NextMorph]_vars

(***************************************************************************)
(* Properties                                                              *)
(***************************************************************************)
\* The successor and predecessor of an expression in the order of the list
\* neutral, happy, surprised, angry, sad (written out, not computed).
SuccExpr(e) ==
    CASE e = "neutral" -> "happy"
      [] e = "happy" -> "surprised"
      [] e = "surprised" -> "angry"
      [] e = "angry" -> "sad"
      [] e = "sad" -> "neutral"

PredExpr(e) ==
    CASE e = "neutral" -> "sad"
      [] e = "happy" -> "neutral"
      [] e = "surprised" -> "happy"
      [] e = "angry" -> "surprised"
      [] e = "sad" -> "angry"

\* C1: in uncontrolled mode, once setExpression(e) with e one of the five
\* expressions has been called on the handle, getExpression() on the handle
\* returns e.  (Fails: until the re-render that setExpression queued has
\* committed, the handle still returns the expression of the last render.)
C1_SetThenGet ==
    (phase = "mounted" /\ op[1] = "setExpression" /\ Includes(op[2])
        /\ ~IsControlled)
    => getExpression = op[2]

\* C1, what the code does give: the same once no re-render is pending.
C1_SetThenGetAfterRender ==
    (phase = "mounted" /\ op[1] = "setExpression" /\ Includes(op[2])
        /\ ~IsControlled /\ ~dirty)
    => getExpression = op[2]

\* C2: setExpression(s) with s not one of the five expressions changes neither
\* the internal expression nor the expression prop nor what the last render
\* captured, queues no re-render, invokes no callback and enters no error
\* state, in controlled and in uncontrolled mode.
C2_InvalidIgnored ==
    [][\A s \in Names \ StyleKeys :
          HandleSetExpression(s) =>
              /\ calls' = <<>>
              /\ UNCHANGED <<internalExpression, controlledExpression, rendered,
                             dirty, crashed, phase>>]_vars

C2_Witness ==
    /\ op = <<"setExpression", "Happy">>
    /\ phase = "mounted"
    /\ hasOnChange
    /\ ~IsControlled
    /\ internalExpression = "happy"
    /\ calls = <<>>

\* setExpression(name) is run by the handle, or by a click or an arrow key
\* through cycleExpression.
RunsSetExpression(name) ==
    \/ op' = <<"setExpression", name>> /\ HandleSetExpression(name)
    \/ op' = <<"click", "+1">> /\ CycleTarget(1) = name /\ Click
    \/ op' = <<"key", "+1">> /\ CycleTarget(1) = name /\ KeyDown("ArrowRight")
    \/ op' = <<"key", "-1">> /\ CycleTarget(-1) = name /\ KeyDown("ArrowLeft")

\* C3: setExpression(name) with name one of the five expressions invokes
\* onExpressionChange exactly once, with name, in both modes and also when name
\* is the current expression; uncontrolled, the internal expression becomes
\* name; controlled, the internal state is not updated, no re-render is queued,
\* and the current expression is the `expression` prop the owner supplies.
C3_AcceptedRequest ==
    [][/\ \A name \in StyleKeys :
             RunsSetExpression(name) =>
                 /\ hasOnChange => calls' = <<name>>
                 /\ ~IsControlled => (internalExpression' = name /\ Expression' = name)
                 /\ IsControlled =>
                       /\ internalExpression' = internalExpression
                       /\ Expression' = controlledExpression
                       /\ getExpression' = getExpression
                       /\ dirty' = dirty
       /\ (phase' = "mounted" /\ ~dirty' /\ IsControlled')
             => getExpression' = controlledExpression']_vars

C3_Witness ==
    /\ op = <<"setExpression", "neutral">>
    /\ phase = "mounted"
    /\ IsControlled
    /\ getExpression = "neutral"
    /\ internalExpression = "neutral"
    /\ calls = <<"neutral">>

\* What a request for expression e shows: the callback's argument, and in
\* uncontrolled mode the internal expression.
Requested(e) ==
    /\ hasOnChange => calls' = <<e>>
    /\ ~IsControlled => internalExpression' = e

\* C4: from a current expression of the list, cycleExpression(+1) requests its
\* successor in the list and cycleExpression(-1) its predecessor, wrapping at
\* both ends: -1 from "neutral" requests "sad", +1 from "sad" requests "neutral".
C4_CycleRequests ==
    [][/\ (getExpression \in StyleKeys /\ op'[2] = "+1"
             /\ (Click \/ KeyDown("ArrowRight")))
          => Requested(SuccExpr(getExpression))
       /\ (getExpression \in StyleKeys /\ op'[2] = "-1" /\ KeyDown("ArrowLeft"))
          => Requested(PredExpr(getExpression))]_vars

C4_Witness ==
    /\ op = <<"key", "-1">>
    /\ getExpression = "neutral"
    /\ hasOnChange
    /\ calls = <<"sad">>
    /\ internalExpression = "sad"

\* C5: after five consecutive cycleExpression(1) calls from a starting
\* expression of the list, the current expression is the starting one again.
C5_FiveCyclesReturn ==
    (run[2] = Len(EXPRESSIONS) /\ run[1] \in StyleKeys)
    => /\ Expression = run[1]
       /\ ~dirty => getExpression = run[1]

C5_Witness ==
    /\ run = <<"happy", 5>>
    /\ ~IsControlled
    /\ ~dirty
    /\ getExpression = "happy"
    /\ prevRef = "happy"
    /\ rendered.prev = "neutral"

\* C6: the current expression of a constructed face is one of the five
\* expressions and no render has thrown.  (Fails: initialExpression and the
\* `expression` prop are used as they come.)
C6_ExpressionAlwaysValid ==
    /\ phase = "mounted" => getExpression \in StyleKeys
    /\ ~crashed

\* The idle timers among the pending timers.
IdleTimers(ts) == {i \in DOMAIN ts : ts[i].kind = "idle"}

\* C7: at most one idle-blink wait timer is pending, and it is the one
\* blinkTimeoutRef.current names, so that the next cancellation reaches it.
C7_OneIdleTimer ==
    /\ Cardinality(IdleTimers(timers)) <= 1
    /\ \A i \in IdleTimers(timers) : timers[i].id = blinkTimeoutRef

C7_Witness ==
    /\ op[1] = "fireIdle"
    /\ phase = "mounted"
    /\ Cardinality(IdleTimers(timers)) = 1
    /\ CountKind(timers, "end") = 2

\* C8 as stated: once autoBlink is disabled, the blinking flag keeps its value
\* for as long as autoBlink stays disabled.  (Fails: a blink in progress when
\* autoBlink is disabled is ended by its blink-end timer.)
C8_FlagFrozenWhileDisabled ==
    [][(~autoBlink /\ ~autoBlink') => isBlinking' = isBlinking]_vars

\* C8 as amended: while autoBlink stays disabled the blinking flag is never set
\* to true, and it is set to false only by a blink-end timer; once the render
\* that disabled autoBlink has committed, no idle timer is pending.
C8_NoBlinkStartsWhileDisabled ==
    [][/\ (~autoBlink /\ ~autoBlink') =>
             /\ ~(~isBlinking /\ isBlinking')
             /\ (isBlinking /\ ~isBlinking') => FireEnd
       /\ (~autoBlink' /\ ~dirty' /\ phase' = "mounted")
             => IdleTimers(timers') = {}]_vars

C8_Witness ==
    /\ op[1] = "fireEnd"
    /\ phase = "mounted"
    /\ ~autoBlink
    /\ ~rendered.autoBlink
    /\ ~isBlinking
    /\ dirty
    /\ timers = <<>>

\* A step arms an idle timer: one more is pending, or the step is the idle
\* timer's callback and it has armed its successor.
IdleArmed ==
    \/ Cardinality(IdleTimers(timers')) > Cardinality(IdleTimers(timers))
    \/ FireIdle /\ IdleTimers(timers') # {}

\* C9 as stated: while the reduced-motion preference is active no idle timer is
\* armed, none fires, and the blinking flag is not set to true.  (Fails: the
\* first run of the auto-blink effect, at mount, sees prefersReducedMotion =
\* false and arms the idle timer.)
C9_NoSchedulingUnderReducedMotion ==
    [][(mediaMatches /\ mediaMatches') =>
          /\ ~IdleArmed
          /\ ~FireIdle
          /\ ~(~isBlinking /\ isBlinking')]_vars

\* C9 as amended: while the preference is active no idle timer fires and the
\* blinking flag is not set to true; an idle timer is armed only by the mount,
\* and the re-render the mount queues cancels it: no idle timer is pending once
\* no re-render is.
C9_NoBlinkUnderReducedMotion ==
    [][(mediaMatches /\ mediaMatches') =>
          /\ ~FireIdle
          /\ ~(~isBlinking /\ isBlinking')
          /\ IdleArmed => (op'[1] = "mount" /\ dirty')
          /\ (phase' = "mounted" /\ ~dirty') => IdleTimers(timers') = {}]_vars

\* Mounted with the preference active and autoBlink on: the timer the mount
\* armed (blinkTimeoutRef still holds its id) is cancelled by the re-render.
C9_Witness ==
    /\ op[1] = "mount"
    /\ phase = "mounted"
    /\ mediaMatches
    /\ prefersReducedMotion
    /\ rendered.prm
    /\ autoBlink
    /\ ~dirty
    /\ blinkTimeoutRef # NoTimer
    /\ timers = <<>>

\* C10: once the face is torn down none of its timers is pending.  (Fails:
\* the teardown cancels the idle timer only; blink-end timers stay pending
\* and fire.)
C10_NoTimerAfterTeardown == phase = "unmounted" => timers = <<>>

\* C11: once App's effect cleanup has run, no frame request is outstanding
\* and animate is not invoked again, whatever number of frames ran before.
C11_FrameChainCancelled ==
    [][/\ (appPhase' = "unmounted" => frameRequests' = {})
       /\ (appPhase = "unmounted" => frames' = frames)]_vars

\* Idle blinking is suspended: autoBlink is off or reduced motion is on.
Suspended == phase = "mounted" /\ (~autoBlink \/ prefersReducedMotion)

\* The settings under which idle blinking runs.
BlinkSettingsOn == phase = "mounted" /\ autoBlink /\ ~mediaMatches

\* C12: once the face has re-rendered with autoBlink off or reduced motion on,
\* no idle timer is pending, and none is armed while that lasts; once it has
\* re-rendered with both settings enabled, an idle timer is pending; and, with
\* timers firing fairly, if the settings stay enabled from some point on, then
\* idle blinks keep occurring.
C12_SuspendAndResume ==
    /\ [][/\ (Suspended' /\ ~dirty' => IdleTimers(timers') = {})
          /\ (Suspended /\ Suspended' => ~IdleArmed)
          /\ (phase' = "mounted" /\ ~dirty' /\ ~Suspended'
                => Cardinality(IdleTimers(timers')) = 1)]_vars
    /\ (<>[]BlinkSettingsOn => []<><<FireIdle /\ isBlinking'>>_vars)

C12_Witness ==
    /\ op[1] = "ownerAutoBlink"
    /\ phase = "mounted"
    /\ ~dirty
    /\ autoBlink
    /\ rendered.autoBlink
    /\ ~prefersReducedMotion
    /\ Cardinality(IdleTimers(timers)) = 1

\* A re-render that commits: only Render is taken while a re-render pends.
RenderStep == dirty /\ phase = "mounted" /\ phase' = "mounted"

\* The committed expression differs from that of the previous render.
ExprChanged == rendered'.expression # rendered.expression

\* The render starts an expression-change pulse: the flag is set and one
\* blink-end timer is added for it.
ExprPulse ==
    /\ isBlinking'
    /\ CountPulse(timers', "expr") = CountPulse(timers, "expr") + 1
    /\ CountKind(timers', "end") = CountKind(timers, "end") + 1

NoExprPulse ==
    /\ CountPulse(timers', "expr") = CountPulse(timers, "expr")
    /\ CountKind(timers', "end") = CountKind(timers, "end")
    /\ isBlinking' = isBlinking

\* C13 as stated: a render starts a pulse exactly when it commits a changed
\* expression with reduced motion off and autoBlink on.  (Fails: the plain
\* variant has no expression-change effect.)
C13_PulseOnEveryChange ==
    [][RenderStep =>
         IF ExprChanged /\ ~prefersReducedMotion /\ autoBlink
         THEN ExprPulse ELSE NoExprPulse]_vars

\* C13 amended: so it is in the morphing variant; the plain variant starts no
\* pulse at any render.
C13_PulseOnChangeWhenMorphing ==
    [][RenderStep =>
         IF variant = 2 /\ ExprChanged /\ ~prefersReducedMotion /\ autoBlink
         THEN ExprPulse ELSE NoExprPulse]_vars

\* The first change after mount, in the morphing variant, has started a pulse.
C13_Witness ==
    /\ variant = 2
    /\ phase = "mounted"
    /\ op[1] = "click"
    /\ rendered.prev = initialExpression
    /\ rendered.expression # rendered.prev
    /\ autoBlink
    /\ ~prefersReducedMotion
    /\ isBlinking
    /\ CountPulse(timers, "expr") = 1

\* The operations that request or make an expression change; a re-render
\* leaves `op` as it is, so these are also the re-renders they cause.
ExprOps == {"click", "key", "setExpression", "ownerExpression"}

\* C14: an expression change, its blink pulse and the re-renders they cause
\* leave the idle schedule as it was: every pending timer stays in place (the
\* idle timer is neither cancelled nor replaced), blinkTimeoutRef.current
\* still names it, and only blink-end timers are added.
C14_IdleScheduleKept ==
    [][op'[1] \in ExprOps /\ phase' = "mounted" =>
         /\ blinkTimeoutRef' = blinkTimeoutRef
         /\ Len(timers') >= Len(timers)
         /\ SubSeq(timers', 1, Len(timers)) = timers
         /\ \A i \in (Len(timers) + 1) .. Len(timers') : timers'[i].kind = "end"]_vars

C14_Witness ==
    /\ variant = 2
    /\ phase = "mounted"
    /\ op[1] = "click"
    /\ ~dirty
    /\ rendered.expression # initialExpression
    /\ Len(timers) = 2
    /\ timers[1].kind = "idle"
    /\ timers[1].id = blinkTimeoutRef
    /\ timers[2].kind = "end"
    /\ timers[2].pulse = "expr"

\* C15: at most one blink-end timer of an expression-change pulse is pending,
\* whatever the sequence of expression changes.
C15_OneExprPulseTimer == CountPulse(timers, "expr") <= 1

\* The offset, times PupilUnit, that a supplied signal v is to give on its
\* axis: +D beyond 1, -D beyond -1, v times D in between.
ExpectedAxis(v) ==
    IF v >= PupilUnit THEN D * PupilUnit
    ELSE IF v <= -PupilUnit THEN -(D * PupilUnit)
    ELSE v * D

OffsetBounded ==
    \A k \in {1, 2} :
        pupilOffset[k] >= -(D * PupilUnit) /\ pupilOffset[k] <= D * PupilUnit

C17_MouthScaleClamped ==
    [][/\ (phase' = "mounted" => rendered'.mouthScale # <<>>)
       /\ (rendered'.mouthScale # <<>> =>
             LET v == rendered'.mouthValue[1]
                 s == rendered'.mouthScale[1]
             IN  /\ (v <= 0 => s = 1000)
                 /\ (v >= 100 => s = 1500)
                 /\ (v > 0 /\ v < 100 => s = 1000 + 5 * v))
       /\ (/\ rendered.mouthScale # <<>>
           /\ rendered'.mouthScale # <<>>
           /\ rendered.mouthValue[1] <= rendered'.mouthValue[1]
           => rendered.mouthScale[1] <= rendered'.mouthScale[1])]_vars

C17_Witness ==
    /\ phase = "mounted"
    /\ rendered.expression = "sad"
    /\ rendered.mouthValue = <<100 + MouthMargin>>
    /\ rendered.mouthScale = <<1500>>

\* C18: in the morphing variant, the render that commits an expression change
\* interpolates from the previous expression to the new one, and as long as
\* the transition runs and no further change is committed, every re-render
\* keeps that from-expression and that to-expression.
C18_MorphEndpointsKept ==
    [][RenderStep /\ variant = 2 =>
         /\ (ExprChanged =>
               /\ rendered'.from = rendered.expression
               /\ rendered'.to = internalExpression)
         /\ (~ExprChanged /\ transition = "running" /\ transition' = "running" =>
               /\ rendered'.from = rendered.from
               /\ rendered'.to = rendered.to)]_vars

\* C19 as stated: the next idle wait is armed only after the blinking flag is
\* back to false, so no idle timer pends while the blink-end timer of an idle
\* blink does.  (Fails: the idle timer's callback calls scheduleBlink() at
\* once.)
C19_NoIdleWaitDuringBlink ==
    phase = "mounted" /\ CountPulse(timers, "idle") > 0 => IdleTimers(timers) = {}

\* C19 amended: the idle timer's callback sets the flag, arms the blink-end
\* timer and then, in the same step, the next idle wait, which so pends
\* during the hold; and an idle blink starts only when the blink-end timer of
\* the previous idle blink has fired.
C19_RescheduleAtBlinkStart ==
    [][~dirty /\ op'[1] = "fireIdle" =>
         /\ CountPulse(timers, "idle") = 0
         /\ CountPulse(timers', "idle") = 1
         /\ isBlinking'
         /\ Cardinality(IdleTimers(timers')) = 1
         /\ timers'[Len(timers')].kind = "idle"
         /\ timers'[Len(timers') - 1].kind = "end"
         /\ timers'[Len(timers') - 1].pulse = "idle"]_vars

C19_Witness ==
    /\ op[1] = "fireIdle"
    /\ phase = "mounted"
    /\ isBlinking
    /\ CountPulse(timers, "idle") = 1
    /\ Cardinality(IdleTimers(timers)) = 1
    /\ timers[Len(timers)].id = blinkTimeoutRef

\* C20: while the face is mounted and the blinking flag is true, a blink-end
\* timer is pending; and, with timers firing fairly, the flag becomes false
\* again (or the face is torn down), whatever idle blinks, expression-change
\* blinks, autoBlink toggles and reduced-motion changes interleave.
C20_BlinkEnds ==
    /\ [](phase = "mounted" /\ isBlinking => CountKind(timers, "end") >= 1)
    /\ ((phase = "mounted" /\ isBlinking) ~> (~isBlinking \/ phase # "mounted"))

\* An idle blink and an expression-change blink overlap.
C20_Witness ==
    /\ phase = "mounted"
    /\ isBlinking
    /\ ~dirty
    /\ CountPulse(timers, "idle") = 1
    /\ CountPulse(timers, "expr") = 1

\* C21: every blink pulse keeps the blinking flag true from its start until
\* its own blink-end timer fires: while the face is mounted and the blink-end
\* timer of any pulse, idle or expression-change, is pending, the flag is
\* true; so the blink-end timer of an earlier pulse does not set it to false
\* within the hold of a later one.
C21_PulseHeldUntilOwnEnd ==
    phase = "mounted" /\ CountKind(timers, "end") >= 1 => isBlinking

====
